---- MODULE Spec2Model ----
(***************************************************************************)
(* Model of the Zendesk Help Center client (zendesk-client.ts), its MCP    *)
(* tool adapter (index.ts) and its console adapter (chatLoop).             *)
(*                                                                         *)
(* JavaScript values are tagged tuples, so that values of different types  *)
(* can be compared:                                                        *)
(*   <<"undefined">>  <<"null">>  <<"NaN">>  <<"number", n>>               *)
(*   <<"boolean", b>> <<"string", s>>  <<"array", <<v1, ...>> >>           *)
(*   <<"object", << <<k1, v1>>, ... >> >>   (own keys in insertion order)  *)
(* Error values are <<"TypeError", message>> and                           *)
(* <<"AxiosError", message, request>>: an axios failure carries the        *)
(* request configuration (url, params, auth) it was issued with.           *)
(***************************************************************************)
EXTENDS Integers, Sequences, FiniteSets, TLC

VARIABLES client, ops, console, rl, process

vars == <<client, ops, console, rl, process>>

\* ------------------------------------------------------------ bounds
\* operations that may be in flight at once on one client
MaxInflight == 2

\* ------------------------------------------------------ JS values
Undefined == <<"undefined">>
Null == <<"null">>
NaN == <<"NaN">>
Num(n) == <<"number", n>>
Bool(b) == <<"boolean", b>>
Str(s) == <<"string", s>>
Arr(seq) == <<"array", seq>>
Obj(pairs) == <<"object", pairs>>

IsNullish(v) == v = Undefined \/ v = Null
IsStr(v) == v[1] = "string"
IsNum(v) == v[1] = "number"
IsArray(v) == v[1] = "array"
IsObj(v) == v[1] = "object"

\* ToBoolean: what `if (v)`, `!v` and `v || d` test
Truthy(v) ==
  CASE v[1] = "undefined" -> FALSE
    [] v[1] = "null" -> FALSE
    [] v[1] = "NaN" -> FALSE
    [] v[1] = "number" -> v[2] # 0
    [] v[1] = "boolean" -> v[2]
    [] v[1] = "string" -> v[2] # ""
    [] OTHER -> TRUE

\* own keys of an object, in insertion order
Keys(o) == [i \in 1..Len(o[2]) |-> o[2][i][1]]
KeySet(o) == {o[2][i][1] : i \in 1..Len(o[2])}
HasKey(v, k) == IsObj(v) /\ k \in KeySet(v)

\* v.k for a non-nullish v (a primitive or an array has none of the keys read here)
Get(v, k) ==
  IF HasKey(v, k)
    THEN LET i == CHOOSE j \in 1..Len(v[2]) : v[2][j][1] = k IN v[2][i][2]
    ELSE Undefined

\* o.k = x : an existing key keeps its position, a new key goes last
Put(o, k, x) ==
  IF k \in KeySet(o)
    THEN Obj([i \in 1..Len(o[2]) |-> IF o[2][i][1] = k THEN <<k, x>> ELSE o[2][i]])
    ELSE Obj(Append(o[2], <<k, x>>))

\* how a function ends
Return(v) == [kind |-> "return", value |-> v]
Throw(e) == [kind |-> "throw", value |-> e]
TypeError(msg) == <<"TypeError", msg>>
AxiosError(msg, request) == <<"AxiosError", msg, request>>
IsAxiosError(e) == e[1] = "AxiosError"

\* ------------------------------------------------- strings as characters
Chars(s) == [i \in 1..Len(s) |-> SubSeq(s, i, i)]

\* the string of the characters cs[lo..hi]
RECURSIVE JoinRange(_, _, _)
JoinRange(cs, lo, hi) ==
  IF lo > hi THEN ""
  ELSE IF lo = hi THEN cs[lo]
  ELSE LET mid == (lo + hi) \div 2
       IN JoinRange(cs, lo, mid) \o JoinRange(cs, mid + 1, hi)

Join(cs) == JoinRange(cs, 1, Len(cs))

UpperChars == Chars("ABCDEFGHIJKLMNOPQRSTUVWXYZ")
LowerChars == Chars("abcdefghijklmnopqrstuvwxyz")
DigitChars == Chars("0123456789")

InSeq(c, cs) == \E i \in 1..Len(cs) : cs[i] = c
IndexIn(c, cs) == CHOOSE i \in 1..Len(cs) : cs[i] = c

\* String.prototype.toLowerCase, one character
LowerChar(c) == IF InSeq(c, UpperChars) THEN LowerChars[IndexIn(c, UpperChars)] ELSE c
ToLowerCase(s) == Join([i \in 1..Len(s) |-> LowerChar(SubSeq(s, i, i))])

IsAlpha(c) == InSeq(LowerChar(c), LowerChars)
IsDigit(c) == InSeq(c, DigitChars)
\* \s
IsSpace(c) == c \in {" ", "\n", "\t", "\r"}
\* what `.` does not match without the s flag
IsLineTerminator(c) == c \in {"\n", "\r"}
IsQuote(c) == c \in {"\"", "'"}

\* cs has the literal lit at position i, letters compared case-insensitively (flag i)
MatchLit(cs, i, lit) ==
  /\ i >= 1
  /\ i + Len(lit) - 1 <= Len(cs)
  /\ \A k \in 1..Len(lit) : LowerChar(cs[i + k - 1]) = LowerChar(lit[k])

Min(S) == CHOOSE x \in S : \A y \in S : x <= y
Max(S) == CHOOSE x \in S : \A y \in S : y <= x

\* greedy runs: the first index >= i whose character is outside the class (the
\* index after the end when the run reaches it)
SkipSpace(cs, i) == Min({j \in i..Len(cs) : ~IsSpace(cs[j])} \cup {Max({i, Len(cs) + 1})})
SkipNotGt(cs, i) == Min({j \in i..Len(cs) : cs[j] = ">"} \cup {Max({i, Len(cs) + 1})})
SkipNotQuote(cs, i) == Min({j \in i..Len(cs) : IsQuote(cs[j])} \cup {Max({i, Len(cs) + 1})})
SkipAlnum(cs, i) ==
  Min({j \in i..Len(cs) : ~(IsAlpha(cs[j]) \/ IsDigit(cs[j]))} \cup {Max({i, Len(cs) + 1})})

\* a match of a pattern at position i: the index after it and what replaces it
NoMatch == [end |-> 0, repl |-> <<>>]
Matched(e, r) == [end |-> e, repl |-> r]

\* /<([a-z][a-z0-9]*)[^>]*>\s*<\/\1>/gi at i, replaced by "".  Group 1 is any
\* non-empty prefix of the opening tag's name the backtracking settles on: the rest
\* of the name is taken by [^>]*.
emptyTagPattern(cs, i) ==
  IF ~(i + 1 <= Len(cs) /\ cs[i] = "<" /\ IsAlpha(cs[i + 1])) THEN NoMatch
  ELSE
    LET nameEnd == SkipAlnum(cs, i + 2)
        gt == SkipNotGt(cs, i + 1)
        lt == SkipSpace(cs, gt + 1)
        Fits(n) ==
          /\ lt + 2 + n <= Len(cs)
          /\ \A k \in 1..n : LowerChar(cs[lt + 1 + k]) = LowerChar(cs[i + k])
          /\ cs[lt + 2 + n] = ">"
    IN IF /\ gt <= Len(cs)
          /\ MatchLit(cs, lt, <<"<", "/">>)
          /\ \E n \in 1..(nameEnd - i - 1) : Fits(n)
         THEN LET n == CHOOSE n \in 1..(nameEnd - i - 1) : Fits(n)
              IN Matched(lt + 3 + n, <<>>)
         ELSE NoMatch

\* /\s+NAME=["']([^"']*)["']/gi at i, replaced by ""
attributePattern(name, cs, i) ==
  IF ~(i <= Len(cs) /\ IsSpace(cs[i])) THEN NoMatch
  ELSE
    LET w == SkipSpace(cs, i)
        q == w + Len(name) + 1
        e == SkipNotQuote(cs, q + 1)
    IN IF /\ MatchLit(cs, w, Chars(name) \o <<"=">>)
          /\ q <= Len(cs)
          /\ IsQuote(cs[q])
          /\ e <= Len(cs)
         THEN Matched(e + 1, <<>>)
         ELSE NoMatch

\* /<NAME[^>]*>([\s\S]*?)<\/NAME>/gi at i, replaced by "$1"
wrapperTagPattern(name, cs, i) ==
  LET open == <<"<">> \o Chars(name)
      close == <<"<", "/">> \o Chars(name) \o <<">">>
  IN IF ~MatchLit(cs, i, open) THEN NoMatch
     ELSE
       LET gt == SkipNotGt(cs, i + Len(open))
           Closes == {j \in (gt + 1)..Len(cs) : MatchLit(cs, j, close)}
       IN IF gt <= Len(cs) /\ Closes # {}
            THEN Matched(Min(Closes) + Len(close), SubSeq(cs, gt + 1, Min(Closes) - 1))
            ELSE NoMatch

\* a pattern for two adjacent line breaks only, /\n\n/g
adjacentLineBreaksPattern(cs, i) ==
  IF i + 1 <= Len(cs) /\ cs[i] = "\n" /\ cs[i + 1] = "\n"
    THEN Matched(i + 2, <<"\n">>)
    ELSE NoMatch

\* /\n\s*\n/g at i, replaced by "\n"
multipleLineBreaksPattern(cs, i) ==
  IF ~(i <= Len(cs) /\ cs[i] = "\n") THEN NoMatch
  ELSE
    LET w == SkipSpace(cs, i + 1)
        Breaks == {j \in (i + 1)..(w - 1) : cs[j] = "\n"}
    IN IF Breaks # {}
         THEN Matched(Max(Breaks) + 1, <<"\n">>)
         ELSE NoMatch

\* /<td>\s*<p>(.*?)<\/p>\s*<\/td>/gi at i, replaced by "<td>$1</td>"
tableCellPattern(cs, i) ==
  IF ~MatchLit(cs, i, Chars("<td>")) THEN NoMatch
  ELSE
    LET w == SkipSpace(cs, i + 4)
        c == w + 3
        TailEnd(j) == SkipSpace(cs, j + 4)
        Ends == {j \in c..Len(cs) :
                   /\ \A k \in c..(j - 1) : ~IsLineTerminator(cs[k])
                   /\ MatchLit(cs, j, Chars("</p>"))
                   /\ MatchLit(cs, TailEnd(j), Chars("</td>"))}
    IN IF MatchLit(cs, w, Chars("<p>")) /\ Ends # {}
         THEN Matched(TailEnd(Min(Ends)) + 5,
                      Chars("<td>") \o SubSeq(cs, c, Min(Ends) - 1) \o Chars("</td>"))
         ELSE NoMatch

MatchAt(pat, cs, i) ==
  CASE pat = "emptyTag" -> emptyTagPattern(cs, i)
    [] pat \in {"style", "id", "class", "target", "border"} -> attributePattern(pat, cs, i)
    [] pat \in {"span", "font"} -> wrapperTagPattern(pat, cs, i)
    [] pat = "lineBreaks" -> multipleLineBreaksPattern(cs, i)
    [] pat = "td" -> tableCellPattern(cs, i)

\* String.prototype.replace with a global pattern: leftmost matches, left to
\* right, each search resuming after the previous match
RECURSIVE ReplaceFrom(_, _, _, _)
ReplaceFrom(pat, cs, i, acc) ==
  LET Starts == {j \in i..Len(cs) : MatchAt(pat, cs, j).end > 0} IN
  IF Starts = {} THEN acc \o SubSeq(cs, i, Len(cs))
  ELSE LET m == MatchAt(pat, cs, Min(Starts))
           done == acc \o SubSeq(cs, i, Min(Starts) - 1) \o m.repl
       IN IF Len(done) >= 0 THEN ReplaceFrom(pat, cs, m.end, done) ELSE done

Replace(cs, pat) == ReplaceFrom(pat, cs, 1, <<>>)

\* the patterns of cleanHtmlContent, in the order the code applies them
Patterns ==
  <<"emptyTag", "style", "id", "class", "target", "border", "span", "font",
    "lineBreaks", "td">>

\* the replace calls from the k-th on (each step's value is computed before the
\* next step reads it)
RECURSIVE ReplaceAll(_, _)
ReplaceAll(cs, k) ==
  IF k > Len(Patterns) THEN cs
  ELSE LET next == Replace(cs, Patterns[k])
       IN IF Len(next) >= 0 THEN ReplaceAll(next, k + 1) ELSE next

\* the rewrites of cleanHtmlContent on a non-empty string
CleanedHtml(html) == Join(ReplaceAll(Chars(html), 1))

\* a normalizer that answers a falsy input with the empty string
cleanHtmlContentOrEmpty(html) ==
  IF ~Truthy(html) THEN Return(Str(""))
  ELSE IF IsStr(html) THEN Return(Str(CleanedHtml(html[2])))
  ELSE Throw(TypeError("html.replace is not a function"))

\* cleanHtmlContent(html): html itself when falsy; a truthy non-string has no
\* replace method
cleanHtmlContent(html) ==
  IF ~Truthy(html) THEN Return(html)
  ELSE IF IsStr(html) THEN Return(Str(CleanedHtml(html[2])))
  ELSE Throw(TypeError("html.replace is not a function"))

\* ------------------------------------------------------ ZendeskClient
\* new ZendeskClient(config)
ZendeskClient(config) ==
  [config |-> config,
   baseUrl |-> "https://" \o config.subdomain \o ".zendesk.com/api/v2/help_center",
   defaultLocale |-> IF Truthy(config.defaultLocale) THEN config.defaultLocale ELSE Str("en")]

\* a request whose username is the bare email, without the "/token" suffix
axiosGetBareUsername(c, url, params) ==
  [method |-> "GET",
   url |-> url,
   params |-> params,
   auth |-> [username |-> c.config.email, password |-> c.config.apiToken]]

\* the call makeRequest hands to the transport: axios.get(url, {params, auth})
axiosGet(c, url, params) ==
  [method |-> "GET",
   url |-> url,
   params |-> params,
   auth |-> [username |-> c.config.email \o "/token", password |-> c.config.apiToken]]

\* a default that also replaces a supplied falsy value, as `params.k || d` would
DefaultIfFalsy(params, k, d) == IF Truthy(Get(params, k)) THEN Get(params, k) ELSE d

\* a destructuring default `{ k = d } = params`: d stands in for a missing or
\* undefined k only
Default(params, k, d) == IF Get(params, k) = Undefined THEN d ELSE Get(params, k)

\* `${v}` for the values an id can be
TemplateString(v) ==
  CASE v[1] = "string" -> v[2]
    [] v[1] = "number" -> ToString(v[2])
    [] v[1] = "NaN" -> "NaN"
    [] v[1] = "undefined" -> "undefined"
    [] v[1] = "null" -> "null"

\* searchArticles up to its await: the request it issues
searchArticlesRequest(c, params) ==
  axiosGet(c, c.baseUrl \o "/articles/search.json",
           Obj(<< <<"query", Get(params, "query")>>,
                  <<"locale", Default(params, "locale", c.defaultLocale)>>,
                  <<"page", Default(params, "page", Num(1))>>,
                  <<"per_page", Default(params, "per_page", Num(20))>> >>))

\* getArticle up to its await
getArticleRequest(c, params) ==
  axiosGet(c, c.baseUrl \o "/articles/" \o TemplateString(Get(params, "id")) \o ".json",
           Obj(<< <<"locale", Default(params, "locale", c.defaultLocale)>> >>))

\* the fields both operations keep, in the order the code writes them
AllowList ==
  <<"id", "url", "html_url", "author_id", "created_at", "updated_at", "title",
    "label_names">>

\* a projection that writes null for a field the raw article lacks
filteredArticleDefaulted(article) ==
  Obj([i \in 1..Len(AllowList) |->
         <<AllowList[i],
           IF HasKey(article, AllowList[i]) THEN Get(article, AllowList[i]) ELSE Null>>])

\* a projection that lets the body through as well
filteredArticleWithBody(article) ==
  Obj([i \in 1..Len(AllowList) |-> <<AllowList[i], Get(article, AllowList[i])>>]
      \o << <<"body", Get(article, "body")>> >>)

\* the object literal both operations build from a raw article
filteredArticle(article) ==
  Obj([i \in 1..Len(AllowList) |-> <<AllowList[i], Get(article, AllowList[i])>>])

\* searchArticles after its await, on the payload data
searchArticlesResult(data) ==
  IF IsNullish(data)
    THEN Throw(TypeError("Cannot read properties of " \o data[1] \o " (reading 'results')"))
  ELSE
    LET results == Get(data, "results") IN
    IF Truthy(results) /\ IsArray(results)
      THEN IF \E i \in 1..Len(results[2]) : IsNullish(results[2][i])
             THEN LET i == CHOOSE i \in 1..Len(results[2]) :
                               /\ IsNullish(results[2][i])
                               /\ \A j \in 1..(i - 1) : ~IsNullish(results[2][j])
                  IN Throw(TypeError("Cannot read properties of " \o results[2][i][1]
                                     \o " (reading 'id')"))
             ELSE Return(Put(data, "results",
                             Arr([i \in 1..Len(results[2]) |->
                                    filteredArticle(results[2][i])])))
      ELSE Return(data)

\* getArticle copying the body as it came, without cleaning it
getArticleResultRawBody(data) ==
  IF IsNullish(data)
    THEN Throw(TypeError("Cannot read properties of " \o data[1] \o " (reading 'article')"))
  ELSE
    LET article == Get(data, "article") IN
    IF Truthy(article)
      THEN Return(Put(data, "article",
                      Obj(filteredArticle(article)[2]
                          \o << <<"body", Get(article, "body")>> >>)))
      ELSE Return(data)

\* getArticle after its await, on the payload data
getArticleResult(data) ==
  IF IsNullish(data)
    THEN Throw(TypeError("Cannot read properties of " \o data[1] \o " (reading 'article')"))
  ELSE
    LET article == Get(data, "article") IN
    IF Truthy(article)
      THEN LET body == cleanHtmlContent(Get(article, "body")) IN
           IF body.kind = "throw" THEN body
           ELSE Return(Put(data, "article",
                           Obj(filteredArticle(article)[2] \o << <<"body", body.value>> >>)))
      ELSE Return(data)

OperationRequest(c, name, params) ==
  IF name = "search" THEN searchArticlesRequest(c, params) ELSE getArticleRequest(c, params)

\* a result taken from a field that the calls of one client share
OperationResultShared(name, data) ==
  LET done == {s \in DOMAIN ops : ops[s].status = "settled" /\ ops[s].outcome.kind = "return"}
  IN IF done # {}
       THEN ops[CHOOSE s \in done : TRUE].outcome
       ELSE IF name = "search" THEN searchArticlesResult(data) ELSE getArticleResult(data)

OperationResult(name, data) ==
  IF name = "search" THEN searchArticlesResult(data) ELSE getArticleResult(data)

\* ------------------------------------------------ adapters' conversions
\* String.prototype.split(" "): the pieces between single spaces, empty ones kept
Split(s) ==
  LET cs == Chars(s)
      Spaces == {i \in 1..Len(cs) : cs[i] = " "}
      \* the k-th space, with the ends of the string as the 0th and the last
      Cut(k) == IF k = 0 THEN 0
                ELSE IF k > Cardinality(Spaces) THEN Len(cs) + 1
                ELSE CHOOSE p \in Spaces : Cardinality({q \in Spaces : q < p}) = k - 1
  IN [k \in 1..(Cardinality(Spaces) + 1) |-> Join(SubSeq(cs, Cut(k - 1) + 1, Cut(k) - 1))]

\* parts[i] of an array of strings: undefined beyond its end
Part(parts, i) == IF i <= Len(parts) THEN Str(parts[i]) ELSE Undefined

HexChars == Chars("0123456789abcdef")
DigitValue(c) == IndexIn(LowerChar(c), HexChars) - 1
IsDigitOf(c, radix) == InSeq(LowerChar(c), HexChars) /\ DigitValue(c) < radix

RECURSIVE DigitsFrom(_, _, _, _)
DigitsFrom(cs, i, radix, acc) ==
  IF i <= Len(cs) /\ IsDigitOf(cs[i], radix)
    THEN DigitsFrom(cs, i + 1, radix, acc * radix + DigitValue(cs[i]))
    ELSE acc

\* Number.parseInt(v) with no radix: leading whitespace, a sign, a 0x prefix, then
\* the longest run of digits; NaN when there is none (and for undefined)
ParseInt(v) ==
  IF ~IsStr(v) THEN NaN
  ELSE
    LET cs == Chars(v[2])
        a == SkipSpace(cs, 1)
        neg == a <= Len(cs) /\ cs[a] = "-"
        b == IF a <= Len(cs) /\ cs[a] \in {"-", "+"} THEN a + 1 ELSE a
        hex == MatchLit(cs, b, <<"0", "x">>)
        radix == IF hex THEN 16 ELSE 10
        d == IF hex THEN b + 2 ELSE b
    IN IF d <= Len(cs) /\ IsDigitOf(cs[d], radix)
         THEN Num((IF neg THEN -1 ELSE 1) * DigitsFrom(cs, d, radix, 0))
         ELSE NaN

\* a || d
OrElse(a, d) == IF Truthy(a) THEN a ELSE d

\* one character inside a JSON string literal
JsonChar(c) ==
  CASE c = "\"" -> "\\\""
    [] c = "\\" -> "\\\\"
    [] c = "\n" -> "\\n"
    [] c = "\t" -> "\\t"
    [] c = "\r" -> "\\r"
    [] OTHER -> c

JsonQuote(s) == "\"" \o Join([i \in 1..Len(s) |-> JsonChar(SubSeq(s, i, i))]) \o "\""

\* Array.prototype.join
JoinWith(strs, sep) ==
  Join([i \in 1..(2 * Len(strs) - 1) |-> IF i % 2 = 1 THEN strs[(i + 1) \div 2] ELSE sep])

\* the own properties JSON.stringify writes: those whose value is not undefined
IsDefinedPair(p) == p[2] # Undefined
Defined(pairs) == SelectSeq(pairs, IsDefinedPair)

\* JSON.stringify(v, null, 2) of a defined value v, at indentation ind
RECURSIVE JsonText(_, _)
JsonText(v, ind) ==
  CASE v[1] = "null" -> "null"
    [] v[1] = "NaN" -> "null"
    [] v[1] = "undefined" -> "null"
    [] v[1] = "number" -> ToString(v[2])
    [] v[1] = "boolean" -> IF v[2] THEN "true" ELSE "false"
    [] v[1] = "string" -> JsonQuote(v[2])
    [] v[1] = "array" ->
         IF v[2] = <<>> THEN "[]"
         ELSE "[\n"
              \o JoinWith([i \in 1..Len(v[2]) |-> ind \o "  " \o JsonText(v[2][i], ind \o "  ")],
                          ",\n")
              \o "\n" \o ind \o "]"
    [] v[1] = "object" ->
         LET ps == Defined(v[2]) IN
         IF ps = <<>> THEN "{}"
         ELSE "{\n"
              \o JoinWith([i \in 1..Len(ps) |->
                             ind \o "  " \o JsonQuote(ps[i][1]) \o ": "
                             \o JsonText(ps[i][2], ind \o "  ")],
                          ",\n")
              \o "\n" \o ind \o "}"

\* JSON.stringify(v, null, 2): undefined for undefined
JSONStringify(v) == IF v = Undefined THEN Undefined ELSE Str(JsonText(v, ""))

\* `${error}`: Error.prototype.toString, name and message
ErrorToString(e) == e[1] \o ": " \o e[2]

\* ------------------------------------------------------------ inputs
\* results arrays of the remote payloads hold up to MaxResults articles
MaxResults == 2

Configs ==
  {[subdomain |-> "acme", email |-> "agent@acme.example", apiToken |-> "s3cr3t",
    defaultLocale |-> l] : l \in {Undefined, Str("ja")}}

\* article bodies the remote service may hold
Bodies ==
  {Str("<p> </p>Hello<h3>\n</h3>"),
   Str("<span class=\"x\" style=\"color:red\">Bold</span>"),
   Str("<td><p>Cell</p></td>"),
   Str("")}

\* a raw article: the allow-listed fields among others
RawArticle(id, body) ==
  Obj(<< <<"id", Num(id)>>,
         <<"url", Str("https://acme.zendesk.com/api/v2/help_center/articles/" \o ToString(id))>>,
         <<"html_url", Str("https://acme.zendesk.com/hc/articles/" \o ToString(id))>>,
         <<"author_id", Num(7)>>,
         <<"draft", Bool(FALSE)>>,
         <<"section_id", Num(3)>>,
         <<"created_at", Str("2024-01-01T00:00:00Z")>>,
         <<"updated_at", Str("2024-02-01T00:00:00Z")>>,
         <<"name", Str("Billing")>>,
         <<"title", Str("Billing")>>,
         <<"locale", Str("en-us")>>,
         <<"label_names", Arr(<<Str("faq"), Str("billing")>>)>>,
         <<"body", body>> >>)

\* a raw article that lacks some of the allow-listed fields
SparseArticle(body) ==
  Obj(<< <<"id", Num(2)>>, <<"draft", Bool(TRUE)>>, <<"title", Str("Refunds")>>,
         <<"body", body>> >>)

\* what an element of a results array may be
ResultElements ==
  {RawArticle(1, Str("<p>Pay</p>")), SparseArticle(Str("<p>Refund</p>")), Null}

SeqsUpTo(S, n) == UNION {[1..k -> S] : k \in 0..n}

SearchPayload(results) ==
  Obj(<< <<"results", results>>, <<"count", Num(2)>>,
         <<"next_page", Str("https://acme.zendesk.com/api/v2/help_center/articles/search.json?page=2")>>,
         <<"previous_page", Null>> >>)

SearchPayloads ==
  {SearchPayload(Arr(rs)) : rs \in SeqsUpTo(ResultElements, MaxResults)}
  \cup {SearchPayload(Obj(<< <<"0", RawArticle(1, Str("<p>Pay</p>"))>> >>)),
        Obj(<< <<"count", Num(0)>> >>)}

ArticlePayloads ==
  {Obj(<< <<"article", RawArticle(1, b)>> >>) : b \in Bodies \cup {Null, Num(5)}}
  \cup {Obj(<< <<"article", SparseArticle(b)>> >>) : b \in {Undefined, Str("<p> </p>")}}
  \cup {Obj(<< <<"article", Null>> >>), Obj(<<>>)}

\* a response body that is no object: an empty body, a text body
OtherPayloads == {Null, Str(""), Str("Bad Gateway")}

Payloads == SearchPayloads \cup ArticlePayloads \cup OtherPayloads

\* how the transport fails: a non-2xx status, a connection error
FailureMessages == {"Request failed with status code 404", "connect ECONNREFUSED"}

\* parameter objects of direct calls of the operations
ParamsOf(pairs) == Obj(Defined(pairs))

SearchParams ==
  {ParamsOf(<< <<"query", q>>, <<"locale", l>>, <<"page", pp[1]>>, <<"per_page", pp[2]>> >>) :
     q \in {Str("billing"), Str("")},
     l \in {Undefined, Str("fr"), Str("")},
     pp \in {<<Undefined, Undefined>>, <<Num(3), Undefined>>, <<Undefined, Num(50)>>,
             <<Num(0), Num(200)>>, <<Str("abc"), Str("xyz")>>, <<NaN, NaN>>}}

ArticleParams ==
  {ParamsOf(<< <<"id", i>>, <<"locale", l>> >>) :
     i \in {Num(999), NaN}, l \in {Undefined, Str("fr"), Str("")}}

OperationParams(name) == IF name = "search" THEN SearchParams ELSE ArticleParams

OperationNames == {"search", "article"}

\* ------------------------------------------------------------- state
Slots == 1..MaxInflight

NoRequest ==
  [method |-> "none", url |-> "", params |-> Undefined,
   auth |-> [username |-> "", password |-> ""]]

NoOutcome == [kind |-> "none", value |-> Undefined]

\* an operation slot: idle, pending (its request issued, awaiting the transport:
\* the caller's input, the parameters and the request are those of the call) or
\* settled (the transport's response and how the operation ended).  calls counts
\* the calls of the transport made for the operation.
IdleOp ==
  [status |-> "idle", caller |-> "none", name |-> "none", input |-> Undefined,
   params |-> Undefined, request |-> NoRequest, calls |-> 0, response |-> <<"none">>, outcome |-> NoOutcome,
   reply |-> Undefined]

Free(s) == ops[s].status = "idle"

\* the callers run one operation at a time: a new one starts when none is under way
CanStart == \A s \in Slots : Free(s)

\* the lowest slot a new operation can take
FreeSlot == CHOOSE s \in Slots : Free(s) /\ \A u \in Slots : Free(u) => s <= u

\* an operation called with params, on the caller's input: it runs to its await,
\* the request issued
Pending(caller, name, input, params) ==
  [IdleOp EXCEPT !.status = "pending", !.caller = caller, !.name = name,
                 !.input = input, !.params = params,
                 !.request = OperationRequest(client, name, params),
                 !.calls = 1]

\* the process that holds the client, past its startup
Started == [program |-> "none", status |-> "running", exitCode |-> 0, tools |-> {},
            env |-> <<>>]

Init ==
  /\ client \in {ZendeskClient(cfg) : cfg \in Configs}
  /\ ops = [s \in Slots |-> IdleOp]
  /\ console = <<>>
  /\ rl = "prompt"
  /\ process = Started

\* a caller other than the adapters calls an operation
DirectCall(name, params) ==
  /\ CanStart
  /\ ops' = [ops EXCEPT ![FreeSlot] = Pending("direct", name, params, params)]
  /\ console' = <<>>
  /\ UNCHANGED <<client, rl, process>>

\* one console.log / console.error call: its label and the value after it
Write(stream, text, value) == [stream |-> stream, text |-> text, value |-> value]

\* --------------------------------------------------- console adapter
ConsoleLines ==
  {"quit", "QUIT", "quit ", "", "help",
   "search", "search ", "search billing", "Search billing fr 2 50",
   "search billing fr abc xyz", "search  billing", "search billing  0 12abc",
   "article", "article 999", "article 999 fr", "article abc"}

\* chatLoop: the arguments of the operation a command line asks for
ChatName(parts) == IF ToLowerCase(parts[1]) = "search" THEN "search" ELSE "article"

\* the arguments without the `|| 1` and `|| 20` fallbacks
ChatParamsNoFallback(c, parts) ==
  IF ChatName(parts) = "search"
    THEN Obj(<< <<"query", Part(parts, 2)>>,
                <<"locale", OrElse(Part(parts, 3), c.defaultLocale)>>,
                <<"page", ParseInt(Part(parts, 4))>>,
                <<"per_page", ParseInt(Part(parts, 5))>> >>)
    ELSE Obj(<< <<"id", ParseInt(Part(parts, 2))>>,
                <<"locale", OrElse(Part(parts, 3), c.defaultLocale)>> >>)

ChatParams(c, parts) ==
  IF ChatName(parts) = "search"
    THEN Obj(<< <<"query", Part(parts, 2)>>,
                <<"locale", OrElse(Part(parts, 3), c.defaultLocale)>>,
                <<"page", OrElse(ParseInt(Part(parts, 4)), Num(1))>>,
                <<"per_page", OrElse(ParseInt(Part(parts, 5)), Num(20))>> >>)
    ELSE Obj(<< <<"id", ParseInt(Part(parts, 2))>>,
                <<"locale", OrElse(Part(parts, 3), c.defaultLocale)>> >>)

\* chatLoop: what a line that starts no operation prints
ChatUsage(parts) ==
  CASE ToLowerCase(parts[1]) = "search" -> "Usage: search <keyword> [locale] [page] [per_page]"
    [] ToLowerCase(parts[1]) = "article" -> "Usage: article <articleID> [locale]"
    [] OTHER -> "Unknown command. Available commands: search, article, quit"

\* chatLoop: the line starts an operation
ChatCalls(parts) == ToLowerCase(parts[1]) \in {"search", "article"} /\ Len(parts) >= 2

\* the readline callback of chatLoop, up to its await or its end
ConsoleInput(line) ==
  /\ rl = "prompt"
  /\ CanStart
  /\ UNCHANGED <<client, process>>
  /\ IF ToLowerCase(line) = "quit"
       THEN /\ rl' = "closed"
            /\ console' = <<>>
            /\ UNCHANGED ops
       ELSE LET parts == Split(line) IN
            IF ChatCalls(parts)
              THEN /\ ops' = [ops EXCEPT ![FreeSlot] =
                                Pending("console", ChatName(parts), Str(line),
                                        ChatParams(client, parts))]
                   /\ rl' = "busy"
                   /\ console' = <<>>
              ELSE /\ console' = <<Write("stdout", ChatUsage(parts), Undefined)>>
                   /\ rl' = "prompt"
                   /\ UNCHANGED ops

\* ------------------------------------------------------ tool adapter
\* index.ts: DEFAULT_LOCALE, which is also the client's configured default
DEFAULT_LOCALE(c) == OrElse(c.config.defaultLocale, Str("en"))

ToolArgs(name) ==
  IF name = "search"
    THEN {ParamsOf(<< <<"query", a[1]>>, <<"locale", a[2]>>, <<"page", a[3]>>,
                      <<"per_page", a[4]>> >>) :
            a \in {<<Str("billing"), Undefined, Undefined, Undefined>>,
                   <<Str(""), Undefined, Undefined, Undefined>>,
                   <<Undefined, Str("fr"), Undefined, Undefined>>,
                   <<Str("billing"), Str("fr"), Num(2), Num(500)>>,
                   <<Str("billing"), Undefined, Str("abc"), Undefined>>,
                   <<Str("billing"), Undefined, Undefined, NaN>>,
                   <<Num(5), Undefined, Undefined, Undefined>>}}
    ELSE {ParamsOf(<< <<"id", a[1]>>, <<"locale", a[2]>> >>) :
            a \in {<<Num(999), Undefined>>, <<Num(999), Str("fr")>>,
                   <<Str("abc"), Undefined>>, <<Undefined, Undefined>>}}

\* zod: z.string(), z.number() (which rejects NaN) and .optional()
ZodString(v) == IsStr(v)
ZodNumber(v) == IsNum(v)
ZodOptional(ok, v) == v = Undefined \/ ok

\* the argument schema of a tool
ToolSchema(name, args) ==
  IF name = "search"
    THEN /\ ZodString(Get(args, "query"))
         /\ ZodOptional(ZodString(Get(args, "locale")), Get(args, "locale"))
         /\ ZodOptional(ZodNumber(Get(args, "page")), Get(args, "page"))
         /\ ZodOptional(ZodNumber(Get(args, "per_page")), Get(args, "per_page"))
    ELSE /\ ZodNumber(Get(args, "id"))
         /\ ZodOptional(ZodString(Get(args, "locale")), Get(args, "locale"))

ToolName(name) == IF name = "search" THEN "searchArticles" ELSE "getArticle"

\* the handler's parameter defaults and the parameter object it passes on
ToolParams(c, name, args) ==
  IF name = "search"
    THEN Obj(<< <<"query", Get(args, "query")>>,
                <<"locale", Default(args, "locale", DEFAULT_LOCALE(c))>>,
                <<"page", Default(args, "page", Num(1))>>,
                <<"per_page", Default(args, "per_page", Num(20))>> >>)
    ELSE Obj(<< <<"id", Get(args, "id")>>,
                <<"locale", Default(args, "locale", DEFAULT_LOCALE(c))>> >>)

\* the error the server answers a call with whose arguments fail the schema
InvalidArguments(name) == <<"McpError", "Invalid arguments for tool " \o ToolName(name)>>

\* a tool call arrives: the schema check, then the handler up to its await
ToolCall(name, args) ==
  /\ CanStart
  /\ ops' = [ops EXCEPT ![FreeSlot] =
               IF ToolSchema(name, args)
                 THEN Pending("tool", name, args, ToolParams(client, name, args))
                 ELSE [IdleOp EXCEPT !.status = "settled", !.caller = "tool",
                                     !.name = name,
                                     !.reply = InvalidArguments(name)]]
  /\ console' = <<>>
  /\ UNCHANGED <<client, rl, process>>

\* the text content a tool handler returns
ToolContent(text) ==
  Obj(<< <<"content", Arr(<<Obj(<< <<"type", Str("text")>>, <<"text", text>> >>)>>)>> >>)

ToolErrorPrefix(name) == IF name = "search" THEN "Search error: " ELSE "Article retrieval error: "

\* a handler without its catch: what the operation throws goes on to the server
ToolReplyRethrowing(name, outcome) ==
  IF outcome.kind = "return"
    THEN ToolContent(JSONStringify(outcome.value))
    ELSE outcome.value

\* a tool handler after its await: the operation returned or threw
ToolReply(name, outcome) ==
  IF outcome.kind = "return"
    THEN ToolContent(JSONStringify(outcome.value))
    ELSE ToolContent(Str(ToolErrorPrefix(name) \o ErrorToString(outcome.value)))

\* ------------------------------------------ the committed build (dist)
\* `const { body, ...rest } = article`: the article's own fields but body
restOfArticle(article) ==
  IF IsObj(article)
    THEN Obj(SelectSeq(article[2], LAMBDA p : p[1] # "body"))
    ELSE Obj(<<>>)

\* dist/index.js, the searchArticles handler after its await
distSearchArticles(data) ==
  IF IsNullish(data)
    THEN Throw(TypeError("Cannot read properties of " \o data[1] \o " (reading 'results')"))
  ELSE
    LET results == Get(data, "results") IN
    IF Truthy(results) /\ IsArray(results)
      THEN IF \E i \in 1..Len(results[2]) : IsNullish(results[2][i])
             THEN LET i == CHOOSE i \in 1..Len(results[2]) :
                               /\ IsNullish(results[2][i])
                               /\ \A j \in 1..(i - 1) : ~IsNullish(results[2][j])
                  IN Throw(TypeError("Cannot destructure 'article' as it is "
                                     \o results[2][i][1] \o "."))
             ELSE Return(Put(data, "results",
                             Arr([i \in 1..Len(results[2]) |->
                                    restOfArticle(results[2][i])])))
      ELSE Return(data)

\* dist/index.js, the getArticle handler after its await
distGetArticle(data) == Return(data)

\* the text content the committed build answers a tool call with
distToolReply(name, response) ==
  LET outcome == IF response[1] = "data"
                   THEN IF name = "search" THEN distSearchArticles(response[2])
                                           ELSE distGetArticle(response[2])
                   ELSE Throw(response[2])
  IN IF outcome.kind = "return"
       THEN ToolContent(JSONStringify(outcome.value))
       ELSE ToolContent(Str(ToolErrorPrefix(name) \o ErrorToString(outcome.value)))

\* chatLoop after its await: what it prints
ChatPrints(outcome) ==
  IF outcome.kind = "return"
    THEN <<Write("stdout", "", JSONStringify(outcome.value))>>
    ELSE <<Write("stderr", "\nError:", outcome.value)>>

\* ------------------------------------------------ the transport answers
\* a catch that calls the transport once more and throws a new error
makeRequestCatchRetrying(error) ==
  [log |-> <<Write("stderr", "Request error:", error)>>,
   thrown |-> <<"Error", "Request failed: " \o error[2]>>,
   retries |-> 1]

\* makeRequest's catch: what it logs, what it throws and the further calls of the
\* transport it makes
makeRequestCatch(error) ==
  [log |-> <<Write("stderr", "Request error:", error)>>, thrown |-> error,
   retries |-> 0]

\* an ending after which the console adapter asks no new question
SettleWithoutPrompt(s, response, log, retries, outcome) ==
  LET op == ops[s] IN
  /\ ops' = [ops EXCEPT ![s] =
               [IdleOp EXCEPT !.status = "settled", !.caller = op.caller,
                              !.name = op.name, !.calls = op.calls + retries,
                              !.response = response, !.outcome = outcome,
                              !.reply = IF op.caller = "tool"
                                          THEN ToolReply(op.name, outcome)
                                          ELSE Undefined]]
  /\ console' = IF op.caller = "console" THEN log \o ChatPrints(outcome) ELSE log
  /\ UNCHANGED <<client, rl, process>>

\* an operation ends with outcome, having written log: its caller takes over
Settle(s, response, log, retries, outcome) ==
  LET op == ops[s] IN
  /\ ops' = [ops EXCEPT ![s] =
               [IdleOp EXCEPT !.status = "settled", !.caller = op.caller,
                              !.name = op.name, !.calls = op.calls + retries,
                              !.response = response, !.outcome = outcome,
                              !.reply = IF op.caller = "tool"
                                          THEN ToolReply(op.name, outcome)
                                          ELSE Undefined]]
  /\ console' = IF op.caller = "console" THEN log \o ChatPrints(outcome) ELSE log
  /\ rl' = IF op.caller = "console" THEN "prompt" ELSE rl
  /\ UNCHANGED <<client, process>>

\* the transport resolves with the payload data
RemoteResponds(s, data) ==
  /\ ops[s].status = "pending"
  /\ Settle(s, <<"data", data>>, <<>>, 0, OperationResult(ops[s].name, data))

\* the transport rejects
RemoteFails(s, msg) ==
  /\ ops[s].status = "pending"
  /\ LET error == AxiosError(msg, ops[s].request)
         caught == makeRequestCatch(error)
     IN Settle(s, <<"error", error>>, caught.log, caught.retries, Throw(caught.thrown))

\* the caller has taken the settled operation's result: the slot is free again
Forget(s) ==
  /\ ops[s].status = "settled"
  /\ ops' = [ops EXCEPT ![s] = IdleOp]
  /\ console' = <<>>
  /\ UNCHANGED <<client, rl, process>>

Next ==
  \/ \E name \in OperationNames : \E params \in OperationParams(name) :
       DirectCall(name, params)
  \/ \E line \in ConsoleLines : ConsoleInput(line)
  \/ \E name \in OperationNames : \E args \in ToolArgs(name) : ToolCall(name, args)
  \/ \E s \in Slots : \E data \in Payloads : RemoteResponds(s, data)
  \/ \E s \in Slots : \E msg \in FailureMessages : RemoteFails(s, msg)
  \/ \E s \in Slots : Forget(s)

Spec == Init /\ [][Next]_vars

\* the transport answers a pending request, one way or the other
Answer ==
  \E s \in Slots :
    \/ \E data \in Payloads : RemoteResponds(s, data)
    \/ \E msg \in FailureMessages : RemoteFails(s, msg)

\* the program with a transport that answers every request in the end
SpecLive == Init /\ [][Next]_vars /\ WF_vars(Answer)

\* ------------------------------------------ operations that overlap
\* nothing in the client or in the tool handlers waits for an earlier call: a
\* call starts whenever it is made, here while a slot is free
SomeFree == \E s \in Slots : Free(s)

OverlappingDirectCall(name, params) ==
  /\ SomeFree
  /\ ops' = [ops EXCEPT ![FreeSlot] = Pending("direct", name, params, params)]
  /\ console' = <<>>
  /\ UNCHANGED <<client, rl, process>>

OverlappingToolCall(name, args) ==
  /\ SomeFree
  /\ ToolSchema(name, args)
  /\ ops' = [ops EXCEPT ![FreeSlot] =
               Pending("tool", name, args, ToolParams(client, name, args))]
  /\ console' = <<>>
  /\ UNCHANGED <<client, rl, process>>

\* the calls and the answers of the overlapping runs
OverlapParams(name) ==
  IF name = "search"
    THEN ParamsOf(<< <<"query", Str("billing")>> >>)
    ELSE ParamsOf(<< <<"id", Num(999)>> >>)

OverlapPayloads ==
  {SearchPayload(Arr(<<RawArticle(1, Str("<p>Pay</p>"))>>)),
   Obj(<< <<"article", RawArticle(1, Str("<td><p>Cell</p></td>"))>> >>)}

NextOverlap ==
  \/ \E name \in OperationNames : OverlappingDirectCall(name, OverlapParams(name))
  \/ \E name \in OperationNames : OverlappingToolCall(name, OverlapParams(name))
  \/ \E s \in Slots : \E data \in OverlapPayloads : RemoteResponds(s, data)
  \/ \E s \in Slots : RemoteFails(s, "Request failed with status code 404")
  \/ \E s \in Slots : Forget(s)

SpecOverlap == Init /\ [][NextOverlap]_vars

\* ------------------------------------------------ the programs' startup
\* the two programs: the server (index.ts) and the debug console (debug-cli.ts)
Programs == {"index", "debug-cli"}

\* process.env after dotenv.config(): each variable is unset, empty or set
Environments ==
  [ZENDESK_SUBDOMAIN : {Undefined, Str(""), Str("acme")},
   ZENDESK_EMAIL : {Undefined, Str(""), Str("agent@acme.example")},
   ZENDESK_API_TOKEN : {Undefined, Str(""), Str("s3cr3t")},
   DEFAULT_LOCALE : {Undefined, Str(""), Str("ja")}]

\* no client is constructed yet
NoClient == [constructed |-> FALSE]

InitStart ==
  /\ client = NoClient
  /\ ops = [s \in Slots |-> IdleOp]
  /\ console = <<>>
  /\ rl = "none"
  /\ process \in {[program |-> p, status |-> "starting", exitCode |-> 0, tools |-> {},
                    env |-> e] : p \in Programs, e \in Environments}

\* a check that lets an empty API token through
MissingConfigurationButToken(subdomain, email, apiToken) ==
  ~Truthy(subdomain) \/ ~Truthy(email)

\* `!subdomain || !email || !apiToken`
MissingConfiguration(subdomain, email, apiToken) ==
  ~Truthy(subdomain) \/ ~Truthy(email) \/ ~Truthy(apiToken)

\* what the program writes before it exits
StartupError(program) ==
  IF program = "index"
    THEN <<Write("stderr", "Environment variables are not set. Please check your .env file.",
                 Undefined)>>
    ELSE <<Write("stderr", "Error: Missing Zendesk configuration in environment variables.",
                 Undefined),
           Write("stderr", "Please set ZENDESK_SUBDOMAIN, ZENDESK_EMAIL, and ZENDESK_API_TOKEN.",
                 Undefined)>>

\* the top level of index.ts and of debug-cli.ts: the configuration is read, the
\* process exits or the client is made, the tools registered or the chat loop begun
Startup ==
  /\ process.status = "starting"
  /\ LET subdomain == OrElse(process.env.ZENDESK_SUBDOMAIN, Str(""))
         email == OrElse(process.env.ZENDESK_EMAIL, Str(""))
         apiToken == OrElse(process.env.ZENDESK_API_TOKEN, Str(""))
         defaultLocale == OrElse(process.env.DEFAULT_LOCALE, Str("en"))
     IN IF MissingConfiguration(subdomain, email, apiToken)
          THEN /\ process' = [process EXCEPT !.status = "exited", !.exitCode = 1]
               /\ console' = StartupError(process.program)
               /\ UNCHANGED <<client, ops, rl>>
          ELSE /\ client' = ZendeskClient([subdomain |-> subdomain[2], email |-> email[2],
                                           apiToken |-> apiToken[2],
                                           defaultLocale |-> defaultLocale])
               /\ process' = [process EXCEPT
                                !.status = "running",
                                !.tools = IF process.program = "index"
                                            THEN {ToolName(name) : name \in OperationNames}
                                            ELSE {}]
               /\ rl' = IF process.program = "debug-cli" THEN "prompt" ELSE rl
               /\ console' = <<>>
               /\ UNCHANGED ops

\* the lines typed at the debug console after its startup
StartLines == {"search billing", "article 999", "help", "quit"}

\* after the startup, the server takes the calls of its registered tools and
\* the debug console the lines typed at its prompt
NextStart ==
  \/ Startup
  \/ \E name \in OperationNames :
       /\ ToolName(name) \in process.tools
       /\ ToolCall(name, OverlapParams(name))
  \/ \E line \in StartLines :
       /\ process.status = "running" /\ process.program = "debug-cli"
       /\ ConsoleInput(line)
  \/ \E s \in Slots : \E data \in OverlapPayloads : RemoteResponds(s, data)
  \/ \E s \in Slots : RemoteFails(s, "connect ECONNREFUSED")
  \/ \E s \in Slots : Forget(s)

SpecStart == InitStart /\ [][NextStart]_vars

\* ------------------------------------- the normalizer on article bodies
\* article bodies are made of up to MaxTokens pieces of markup
MaxTokens == 4

\* the pieces: block tags, a closing tag after a space; wrappers around text; an
\* opening tag cut around its attributes; tag names of which one begins another;
\* a table cell's wrapping and content; line breaks around an empty tag; a tag
\* cut around attributes of which one has the other quote inside its value; a
\* table cell of several paragraphs
BlockTokens == {"<div>", "</div>", "<p>", " </p>"}
WrapperTokens == {"<span>", "x</span>", "</span>", "<font>x</font>"}
AttributeTokens == {"<a s", " style=\"a\"", "tyle='b'", ">"}
NameTokens == {"<pre>", "</pre>", "<P>", "</p>"}
CellTokens == {"<td><p>", "a", "\n", "</p></td>"}
LineTokens == {"\n", " ", "<b></b>", "x"}
QuoteTokens == {"<p", " style=\"f:'A'\"", " id='b'", ">"}
NestTokens == {"<td><p>a", "</p><p>b", "</p></td>", "</p>"}

HtmlOver(tokens) == {Join(ts) : ts \in SeqsUpTo(tokens, MaxTokens)}

HtmlInputs ==
  HtmlOver(BlockTokens) \cup HtmlOver(WrapperTokens) \cup HtmlOver(AttributeTokens)
  \cup HtmlOver(NameTokens) \cup HtmlOver(CellTokens) \cup HtmlOver(LineTokens)

\* the bodies an article may come with: any of the strings, or none
HtmlBodies == {Str(h) : h \in HtmlInputs} \cup {Undefined}

InitNorm ==
  /\ client = ZendeskClient([subdomain |-> "acme", email |-> "agent@acme.example",
                             apiToken |-> "s3cr3t", defaultLocale |-> Undefined])
  /\ ops = [s \in Slots |-> IdleOp]
  /\ console = <<>>
  /\ rl = "prompt"
  /\ process = Started

\* getArticle is called, the remote service answers with an article with that body
NextNorm ==
  \/ DirectCall("article", ParamsOf(<< <<"id", Num(1)>> >>))
  \/ \E s \in Slots : \E body \in HtmlBodies :
       RemoteResponds(s, Obj(<< <<"article", RawArticle(1, body)>> >>))
  \/ \E s \in Slots : Forget(s)

SpecNorm == InitNorm /\ [][NextNorm]_vars

\* getArticle on the bodies of quoted attributes and of table cells
MarkupBodies == {Str(h) : h \in HtmlOver(QuoteTokens) \cup HtmlOver(NestTokens)}

NextMarkup ==
  \/ DirectCall("article", ParamsOf(<< <<"id", Num(1)>> >>))
  \/ \E s \in Slots : \E body \in MarkupBodies :
       RemoteResponds(s, Obj(<< <<"article", RawArticle(1, body)>> >>))
  \/ \E s \in Slots : Forget(s)

SpecMarkup == InitNorm /\ [][NextMarkup]_vars

\* ------------------------------- the projection on incomplete articles
\* the fields the operations read of a raw article
ProjectedFields == {AllowList[i] : i \in 1..Len(AllowList)} \cup {"body"}

\* a raw article without the fields of missing
ArticleLacking(missing) ==
  LET Kept(pair) == pair[1] \notin missing
  IN Obj(SelectSeq(RawArticle(1, Str("<p>Pay</p>"))[2], Kept))

PartialArticles == {ArticleLacking(missing) : missing \in SUBSET ProjectedFields}

\* the payload the remote service answers the operation in slot s with, for an
\* article a
PayloadFor(s, a) ==
  IF ops[s].name = "search"
    THEN SearchPayload(Arr(<<a>>))
    ELSE Obj(<< <<"article", a>> >>)

\* an operation is called, the remote service answers with an incomplete article
NextProj ==
  \/ DirectCall("search", ParamsOf(<< <<"query", Str("billing")>> >>))
  \/ DirectCall("article", ParamsOf(<< <<"id", Num(1)>> >>))
  \/ \E s \in Slots : \E a \in PartialArticles : RemoteResponds(s, PayloadFor(s, a))
  \/ \E s \in Slots : Forget(s)

SpecProj == InitNorm /\ [][NextProj]_vars

\* ------------------------------------------------------------ claims
Settled(s) == ops[s].status = "settled"
IsPending(s) == ops[s].status = "pending"

\* the operation in slot s got the payload of a successful remote call and returned
Returned(s, name) ==
  /\ Settled(s)
  /\ ops[s].name = name
  /\ ops[s].response[1] = "data"
  /\ ops[s].outcome.kind = "return"

Payload(s) == ops[s].response[2]
Result(s) == ops[s].outcome.value

EightFields ==
  <<"id", "url", "html_url", "author_id", "created_at", "updated_at", "title",
    "label_names">>

\* C1: a successful search whose payload has an array `results` returns that
\* payload with every other top-level field unchanged and with `results` the
\* element-wise projection of the remote sequence: same length, same order, each
\* element exactly the eight allow-listed fields, their values those of the raw
\* article, and no body field.
C1_SearchProjectsInOrder ==
  \A s \in Slots :
    (Returned(s, "search") /\ IsObj(Payload(s)) /\ IsArray(Get(Payload(s), "results"))) =>
      LET raw == Get(Payload(s), "results")[2]
          out == Get(Result(s), "results")
      IN /\ IsObj(Result(s))
         /\ Keys(Result(s)) = Keys(Payload(s))
         /\ \A k \in KeySet(Payload(s)) \ {"results"} :
              Get(Result(s), k) = Get(Payload(s), k)
         /\ IsArray(out)
         /\ Len(out[2]) = Len(raw)
         /\ \A i \in 1..Len(raw) :
              /\ IsObj(out[2][i])
              /\ Keys(out[2][i]) = EightFields
              /\ "body" \notin KeySet(out[2][i])
              /\ \A k \in KeySet(out[2][i]) : Get(out[2][i], k) = Get(raw[i], k)

\* a search returned two different articles, in the order the remote gave them
C1_Witness ==
  \E s \in Slots :
    /\ Returned(s, "search")
    /\ IsObj(Payload(s))
    /\ IsArray(Get(Payload(s), "results"))
    /\ Len(Get(Payload(s), "results")[2]) = 2
    /\ Get(Get(Payload(s), "results")[2][1], "id") = Num(2)
    /\ Get(Get(Payload(s), "results")[2][2], "id") = Num(1)
    /\ Get(Get(Result(s), "results")[2][1], "id") = Num(2)
    /\ Get(Get(Result(s), "results")[2][2], "id") = Num(1)

\* C2: getArticle on a raw article R returns an article whose fields are the
\* eight allow-listed fields copied from R and a body that is cleanHtmlContent
\* of R's body: "<p> </p>Hello<h3>\n</h3>" comes back as "Hello", the span
\* example as "Bold", "<td><p>Cell</p></td>" as "<td>Cell</td>".
C2_ArticleBodyNormalized ==
  \A s \in Slots :
    (Returned(s, "article") /\ IsObj(Payload(s)) /\ IsObj(Get(Payload(s), "article"))) =>
      LET R == Get(Payload(s), "article")
          a == Get(Result(s), "article")
      IN /\ IsObj(a)
         /\ Keys(a) = EightFields \o <<"body">>
         /\ \A i \in 1..Len(EightFields) : Get(a, EightFields[i]) = Get(R, EightFields[i])
         /\ Get(a, "body") = cleanHtmlContent(Get(R, "body")).value
         /\ Get(R, "body") = Str("<p> </p>Hello<h3>\n</h3>") => Get(a, "body") = Str("Hello")
         /\ Get(R, "body") = Str("<span class=\"x\" style=\"color:red\">Bold</span>")
              => Get(a, "body") = Str("Bold")
         /\ Get(R, "body") = Str("<td><p>Cell</p></td>") => Get(a, "body") = Str("<td>Cell</td>")
         /\ Get(R, "body") \in {Undefined, Null, Str("")} => Get(a, "body") = Get(R, "body")

\* getArticle returned an article whose body the cleaning changed
C2_Witness ==
  \E s \in Slots :
    /\ Returned(s, "article")
    /\ IsObj(Payload(s))
    /\ Get(Get(Payload(s), "article"), "body")
         = Str("<span class=\"x\" style=\"color:red\">Bold</span>")
    /\ Get(Get(Result(s), "article"), "body") = Str("Bold")
    /\ Get(Get(Result(s), "article"), "title") = Str("Billing")

\* the locale the client was configured with, "en" when none was
ConfiguredLocale ==
  IF client.config.defaultLocale \in {Undefined, Str("")}
    THEN Str("en")
    ELSE client.config.defaultLocale

\* C4: an operation's request carries, for locale, page and per_page, the value
\* the caller supplied and, where the caller supplied none, the configured default
\* locale, page 1 and per_page 20.
C4_DefaultsAndOverrides ==
  \A s \in Slots :
    IsPending(s) =>
      LET p == ops[s].params
          q == ops[s].request.params
          Sent(k, d) == Get(q, k) = (IF Get(p, k) = Undefined THEN d ELSE Get(p, k))
      IN /\ Sent("locale", ConfiguredLocale)
         /\ ops[s].name = "search" => Sent("page", Num(1)) /\ Sent("per_page", Num(20))

\* a search called with a query only, on a client configured with locale "ja"
C4_Witness ==
  \E s \in Slots :
    /\ IsPending(s)
    /\ ops[s].caller = "direct"
    /\ ops[s].name = "search"
    /\ KeySet(ops[s].params) = {"query"}
    /\ Get(ops[s].request.params, "locale") = Str("ja")
    /\ Get(ops[s].request.params, "page") = Num(1)
    /\ Get(ops[s].request.params, "per_page") = Num(20)

\* ---- C3
\* the article records an operation's output holds: the elements of `results`
\* (the values of `results` when it is an object and no array) and `article`
ArticleRecords(name, result) ==
  IF ~IsObj(result) THEN {}
  ELSE IF name = "search"
    THEN LET rs == Get(result, "results") IN
         IF IsArray(rs) THEN {rs[2][i] : i \in 1..Len(rs[2])}
         ELSE IF IsObj(rs) THEN {rs[2][i][2] : i \in 1..Len(rs[2])}
         ELSE {}
    ELSE {Get(result, "article")}

AllowedFields(name) ==
  {EightFields[i] : i \in 1..Len(EightFields)} \cup (IF name = "search" THEN {} ELSE {"body"})

\* C3: whatever the payload of a successful remote call, no article record in the
\* output of search or getArticle has a field outside the allow-list (plus body
\* for getArticle), and no search result has a body.
C3_NoFieldOutsideAllowList ==
  \A s \in Slots : \A name \in OperationNames :
    Returned(s, name) =>
      \A r \in ArticleRecords(name, Result(s)) :
        IsObj(r) => KeySet(r) \subseteq AllowedFields(name)

\* ---- C5
\* a command-line token in which Number.parseInt finds no number: it has no digit
NonNumericToken(t) == IsStr(t) /\ t # Str("") /\ \A i \in 1..Len(t[2]) : ~IsDigit(SubSeq(t[2], i, i))

\* C5 (as stated): the search operation, called with a page that is no number,
\* issues its request with page 1, and called with a per_page that is no number,
\* with per_page 20.
C5_NonNumericFallsBack ==
  \A s \in Slots :
    (IsPending(s) /\ ops[s].name = "search" /\ ops[s].caller \in {"direct", "tool"}) =>
      /\ (Get(ops[s].input, "page") # Undefined /\ ~IsNum(Get(ops[s].input, "page")))
           => Get(ops[s].request.params, "page") = Num(1)
      /\ (Get(ops[s].input, "per_page") # Undefined /\ ~IsNum(Get(ops[s].input, "per_page")))
           => Get(ops[s].request.params, "per_page") = Num(20)

\* C5 (amended): the console's search command, given a page token with no digit,
\* issues its request with page 1, and given a per_page token with no digit, with
\* per_page 20; the operation itself sends a supplied non-numeric value as it is.
C5_ConsoleNonNumericFallsBack ==
  \A s \in Slots :
    (IsPending(s) /\ ops[s].name = "search") =>
      /\ ops[s].caller = "console" =>
           LET parts == Split(ops[s].input[2]) IN
           /\ NonNumericToken(Part(parts, 4)) => Get(ops[s].request.params, "page") = Num(1)
           /\ NonNumericToken(Part(parts, 5))
                => Get(ops[s].request.params, "per_page") = Num(20)
      /\ ops[s].caller = "direct" =>
           \A k \in {"page", "per_page"} :
             (Get(ops[s].input, k) # Undefined /\ ~IsNum(Get(ops[s].input, k)))
               => Get(ops[s].request.params, k) = Get(ops[s].input, k)

\* the console's "search billing fr abc xyz" has issued its request
C5_Witness ==
  \E s \in Slots :
    /\ IsPending(s)
    /\ ops[s].caller = "console"
    /\ ops[s].input = Str("search billing fr abc xyz")
    /\ ops[s].request.method = "GET"
    /\ Get(ops[s].request.params, "page") = Num(1)
    /\ Get(ops[s].request.params, "per_page") = Num(20)

\* ---- C6
\* C6: a search whose query is missing or empty is rejected by the console
\* adapter and by the tool adapter: no request is issued for it.
C6_EmptyQueryRejectedAtBoundary ==
  \A s \in Slots :
    (IsPending(s) /\ ops[s].name = "search" /\ ops[s].caller \in {"console", "tool"}) =>
      /\ IsStr(Get(ops[s].request.params, "query"))
      /\ Get(ops[s].request.params, "query") # Str("")

\* ---- C7
\* C7: every request issued is a GET with the Basic credentials `{email}/token`
\* and the API token; search goes to .../articles/search.json with exactly the
\* parameters query, locale, page, per_page, getArticle to .../articles/{id}.json
\* with exactly the parameter locale.
C7_RequestShape ==
  \A s \in Slots :
    IsPending(s) =>
      LET r == ops[s].request
          base == "https://" \o client.config.subdomain \o ".zendesk.com/api/v2/help_center"
      IN /\ r.method = "GET"
         /\ r.auth.username = client.config.email \o "/token"
         /\ r.auth.password = client.config.apiToken
         /\ ops[s].name = "search" =>
              /\ r.url = base \o "/articles/search.json"
              /\ Keys(r.params) = <<"query", "locale", "page", "per_page">>
              /\ Get(r.params, "query") = Get(ops[s].params, "query")
         /\ ops[s].name = "article" =>
              /\ r.url = base \o "/articles/" \o TemplateString(Get(ops[s].params, "id")) \o ".json"
              /\ Keys(r.params) = <<"locale">>

\* getArticle of id 999 has issued its request
C7_Witness ==
  \E s \in Slots :
    /\ IsPending(s)
    /\ ops[s].name = "article"
    /\ ops[s].request.url = "https://acme.zendesk.com/api/v2/help_center/articles/999.json"
    /\ ops[s].request.auth = [username |-> "agent@acme.example/token", password |-> "s3cr3t"]
    /\ Keys(ops[s].request.params) = <<"locale">>

\* ---- C8
\* the string s has sub as a substring
Contains(s, sub) == \E i \in 1..(Len(s) - Len(sub) + 1) : SubSeq(s, i, i + Len(sub) - 1) = sub

Secrets == {client.config.apiToken, client.config.email}

\* a logged or returned value lets the credentials be read: an error object that
\* holds the request's auth, or a text with the token or the account in it
CarriesCredentials(v) ==
  CASE v[1] = "AxiosError" ->
         v[3].auth.password \in Secrets \/ \E x \in Secrets : Contains(v[3].auth.username, x)
    [] v[1] = "string" -> \E x \in Secrets : Contains(v[2], x)
    [] v[1] \in {"object", "array"} -> \E x \in Secrets : Contains(JsonText(v, ""), x)
    [] OTHER -> FALSE

\* C8: whether the remote call succeeds or fails, nothing written to the log, no
\* value an operation returns and no tool result carries the API token or the
\* account identifier.
C8_CredentialsNeverWritten ==
  /\ \A i \in 1..Len(console) : ~CarriesCredentials(console[i].value)
  /\ \A s \in Slots :
       Settled(s) =>
         /\ ops[s].outcome.kind = "return" => ~CarriesCredentials(ops[s].outcome.value)
         /\ ~CarriesCredentials(ops[s].reply)

\* ---- C9
\* C9: an operation calls the transport exactly once; when the call fails the
\* operation throws the transport's error value itself and calls no second time.
C9_OneCallNoRetry ==
  \A s \in Slots :
    /\ IsPending(s) => ops[s].calls = 1
    /\ (Settled(s) /\ ops[s].response[1] # "none") => ops[s].calls = 1
    /\ (Settled(s) /\ ops[s].response[1] = "error") =>
         ops[s].outcome = Throw(ops[s].response[2])

\* getArticle of id 999 failed with a 404 and threw the transport's error
C9_Witness ==
  \E s \in Slots :
    /\ Settled(s)
    /\ ops[s].name = "article"
    /\ ops[s].response[1] = "error"
    /\ IsAxiosError(ops[s].response[2])
    /\ ops[s].response[2][2] = "Request failed with status code 404"
    /\ ops[s].response[2][3].url = "https://acme.zendesk.com/api/v2/help_center/articles/999.json"
    /\ ops[s].outcome.kind = "throw"
    /\ ops[s].outcome.value = ops[s].response[2]
    /\ ops[s].calls = 1

\* ---- C10
\* the result is a payload whose articles were projected
Projected(name, result) ==
  /\ IsObj(result)
  /\ \A r \in ArticleRecords(name, result) :
       Truthy(r) => IsObj(r) /\ KeySet(r) \subseteq AllowedFields(name)

\* C10: whatever the remote call's outcome and the payload's shape, an operation
\* either returns a projected result or throws the transport's error: it throws
\* no other error and returns no unprojected payload.
C10_NoPartialSuccess ==
  \A s \in Slots :
    (Settled(s) /\ ops[s].response[1] # "none") =>
      /\ ops[s].outcome.kind = "throw" =>
           ops[s].response[1] = "error" /\ ops[s].outcome.value = ops[s].response[2]
      /\ ops[s].outcome.kind = "return" =>
           ops[s].response[1] = "data" /\ Projected(ops[s].name, ops[s].outcome.value)

\* ---- the normalizer's claims
\* getArticle in slot s returned, its raw article's body a string
Cleaned(s) ==
  /\ Returned(s, "article")
  /\ IsObj(Payload(s))
  /\ IsStr(Get(Get(Payload(s), "article"), "body"))

\* the characters of the raw body and of the body returned
RawBody(s) == Chars(Get(Get(Payload(s), "article"), "body")[2])
CleanBody(s) == Chars(Get(Get(Result(s), "article"), "body")[2])

\* an opening tag starts at i: "<", a name, anything up to ">"
OpensAt(cs, i) ==
  /\ i + 1 <= Len(cs)
  /\ cs[i] = "<"
  /\ IsAlpha(cs[i + 1])
  /\ SkipNotGt(cs, i + 1) <= Len(cs)

\* the name of the opening tag at i, in lower case
TagName(cs, i) ==
  [k \in 1..(SkipAlnum(cs, i + 1) - i - 1) |-> LowerChar(cs[i + k])]

\* the closing tag of name (a sequence of characters) is at i
ClosesAt(cs, i, name) ==
  /\ MatchLit(cs, i, <<"<", "/">> \o name \o <<">">>)

\* a tag pair whose content is only whitespace starts at i
EmptyPairAt(cs, i) ==
  /\ OpensAt(cs, i)
  /\ ClosesAt(cs, SkipSpace(cs, SkipNotGt(cs, i + 1) + 1), TagName(cs, i))

\* ---- C11
\* C11: the body getArticle returns holds no tag pair whose content is only
\* whitespace, whatever the raw body, pairs that an earlier removal or unwrapping
\* emptied included.
C11_NoEmptyPairLeft ==
  \A s \in Slots :
    Cleaned(s) => \A i \in 1..Len(CleanBody(s)) : ~EmptyPairAt(CleanBody(s), i)

\* ---- C12
PresentationAttributes == {"style", "id", "class", "target", "border"}

\* position i is inside a tag: after a "<" with no ">" since
InTag(cs, i) == \E l \in 1..(i - 1) : cs[l] = "<" /\ \A k \in l..i : cs[k] # ">"

\* whitespace at i, then name="..." or name='...'
QuotedAttributeAt(cs, i, name) ==
  LET q == i + Len(name) + 2 IN
  /\ IsSpace(cs[i])
  /\ MatchLit(cs, i + 1, Chars(name) \o <<"=">>)
  /\ q <= Len(cs)
  /\ IsQuote(cs[q])
  /\ \E e \in (q + 1)..Len(cs) : cs[e] = cs[q]

\* C12: the body getArticle returns has no quoted style, id, class, target or
\* border attribute on any tag, whatever the raw body, an attribute that the
\* removal of another one put together included.
C12_NoPresentationAttributeLeft ==
  \A s \in Slots :
    Cleaned(s) =>
      \A i \in 1..Len(CleanBody(s)) : \A name \in PresentationAttributes :
        ~(InTag(CleanBody(s), i) /\ QuotedAttributeAt(CleanBody(s), i, name))

\* ---- C13
\* the positions up to i at which the literal lit is
Occurrences(cs, lit, i) == {j \in 1..i : MatchLit(cs, j, lit)}

\* the opening and closing tags of name are balanced: no closing tag before its
\* opening tag, and as many of the ones as of the others
WellNested(cs, name) ==
  LET Opened(i) == Cardinality(Occurrences(cs, <<"<">> \o Chars(name), i))
      Closed(i) == Cardinality(Occurrences(cs, <<"<", "/">> \o Chars(name) \o <<">">>, i))
  IN /\ \A i \in 1..Len(cs) : Closed(i) <= Opened(i)
     /\ Closed(Len(cs)) = Opened(Len(cs))

\* an opening or a closing tag of name is at i
WrapperTagAt(cs, i, name) ==
  \/ MatchLit(cs, i, <<"<">> \o Chars(name))
  \/ MatchLit(cs, i, <<"<", "/">> \o Chars(name) \o <<">">>)

\* C13: the body getArticle returns for a raw body whose span and font tags are
\* balanced has no opening and no closing span or font tag, nested wrappers
\* included.
C13_NoWrapperLeft ==
  \A s \in Slots :
    (Cleaned(s) /\ WellNested(RawBody(s), "span") /\ WellNested(RawBody(s), "font")) =>
      \A i \in 1..Len(CleanBody(s)) : \A name \in {"span", "font"} :
        ~WrapperTagAt(CleanBody(s), i, name)

\* ---- C14
\* cs has none of the presentation attributes and no span or font tag
FreeOfCruft(cs) ==
  \A i \in 1..Len(cs) :
    /\ \A name \in PresentationAttributes : ~QuotedAttributeAt(cs, i, name)
    /\ \A name \in {"span", "font"} : ~WrapperTagAt(cs, i, name)

\* C14: for a raw body x free of style/id/class/target/border attributes and of
\* span/font wrappers, cleaning the body getArticle returned once more changes
\* nothing: normalize(normalize(x)) = normalize(x).
C14_Idempotent ==
  \A s \in Slots :
    (Cleaned(s) /\ FreeOfCruft(RawBody(s))) =>
      LET once == Get(Get(Result(s), "article"), "body")
      IN cleanHtmlContent(once) = Return(once)

\* ---- C15
\* C15: the normalizer is the identity on an absent and on an empty body:
\* getArticle returns the body undefined for a raw body undefined and "" for "".
C15_IdentityOnAbsentAndEmpty ==
  \A s \in Slots :
    (Returned(s, "article") /\ IsObj(Payload(s)) /\ IsObj(Get(Payload(s), "article"))) =>
      LET raw == Get(Get(Payload(s), "article"), "body")
      IN raw \in {Undefined, Str("")} => Get(Get(Result(s), "article"), "body") = raw

\* getArticle returned an article that came without a body
C15_Witness ==
  \E s \in Slots :
    /\ Returned(s, "article")
    /\ Get(Get(Payload(s), "article"), "title") = Str("Billing")
    /\ Get(Get(Payload(s), "article"), "body") = Undefined
    /\ HasKey(Get(Result(s), "article"), "body")
    /\ Get(Get(Result(s), "article"), "body") = Undefined

\* ---- C16
\* C16: the per_page of a request the searchArticles tool issues is a number no
\* greater than 100, whatever number the tool's caller gave.
C16_ToolPerPageAtMost100 ==
  \A s \in Slots :
    (IsPending(s) /\ ops[s].caller = "tool" /\ ops[s].name = "search") =>
      /\ IsNum(Get(ops[s].request.params, "per_page"))
      /\ Get(ops[s].request.params, "per_page")[2] <= 100

\* ---- C17
\* the pieces of a line between runs of one or more whitespace characters
Words(line) ==
  LET cs == Chars(line)
      Starts == {i \in 1..Len(cs) : ~IsSpace(cs[i]) /\ (i = 1 \/ IsSpace(cs[i - 1]))}
      Nth(k) == CHOOSE i \in Starts : Cardinality({j \in Starts : j < i}) = k - 1
      End(i) == Min({j \in i..Len(cs) : IsSpace(cs[j])} \cup {Len(cs) + 1})
  IN [k \in 1..Cardinality(Starts) |-> Join(SubSeq(cs, Nth(k), End(Nth(k)) - 1))]

\* C17: the operation a console line of two or more words starts gets the line's
\* whitespace-separated arguments in order: the second word is the keyword (the
\* id, for article), the third the locale, when there is one, however many
\* spaces separate the words.
C17_WhitespaceDelimited ==
  \A s \in Slots :
    (IsPending(s) /\ ops[s].caller = "console" /\ Len(Words(ops[s].input[2])) >= 2) =>
      LET words == Words(ops[s].input[2]) IN
      /\ ops[s].name = "search" => Get(ops[s].params, "query") = Str(words[2])
      /\ ops[s].name = "article" => Get(ops[s].params, "id") = ParseInt(Str(words[2]))
      /\ Len(words) >= 3 => Get(ops[s].params, "locale") = Str(words[3])

\* ---- C18
\* C18: a console line with a command but invalid arguments issues no request:
\* the article a console line asks for has a numeric id.
C18_InvalidArgumentsIssueNoRequest ==
  \A s \in Slots :
    (IsPending(s) /\ ops[s].caller = "console" /\ ops[s].name = "article") =>
      IsNum(Get(ops[s].params, "id"))

\* ---- C19
\* C19: rule 1 removes something only where an opening tag is followed by
\* whitespace and the closing tag of its whole name: on a raw body with no such
\* pair the empty-tag replacement changes nothing.
C19_Rule1NeedsWholeName ==
  \A s \in Slots :
    (Cleaned(s) /\ \A i \in 1..Len(RawBody(s)) : ~EmptyPairAt(RawBody(s), i)) =>
      Replace(RawBody(s), "emptyTag") = RawBody(s)

\* ---- C20
\* none of rules 1-4 (every pattern but the last, the table cell's) changes cs
UnchangedByRules1to4(cs) ==
  \A k \in 1..(Len(Patterns) - 1) : Replace(cs, Patterns[k]) = cs

\* cs is <td><p>X</p></td> with no tag inside X
IsWrappedCell(cs) ==
  /\ Len(cs) >= Len("<td><p>") + Len("</p></td>")
  /\ SubSeq(cs, 1, Len("<td><p>")) = Chars("<td><p>")
  /\ SubSeq(cs, Len(cs) - Len("</p></td>") + 1, Len(cs)) = Chars("</p></td>")
  /\ \A i \in (Len("<td><p>") + 1)..(Len(cs) - Len("</p></td>")) : cs[i] # "<"

CellContent(cs) == SubSeq(cs, Len("<td><p>") + 1, Len(cs) - Len("</p></td>"))

\* C20: a raw body <td><p>X</p></td> that rules 1-4 leave unchanged comes back
\* from getArticle as <td>X</td>.
C20_CellParagraphCollapsed ==
  \A s \in Slots :
    (Cleaned(s) /\ IsWrappedCell(RawBody(s)) /\ UnchangedByRules1to4(RawBody(s))) =>
      CleanBody(s) = Chars("<td>") \o CellContent(RawBody(s)) \o Chars("</td>")

\* ---- C21
\* C21: the body getArticle returns has no two line breaks with only whitespace
\* between them, whatever the raw body: blank lines that the removals of rules
\* 1-3 leave are collapsed too, and rule 5 brings none back.
C21_NoBlankLine ==
  \A s \in Slots :
    Cleaned(s) =>
      \A i \in 1..Len(CleanBody(s)) : \A j \in (i + 1)..Len(CleanBody(s)) :
        (CleanBody(s)[i] = "\n" /\ CleanBody(s)[j] = "\n") =>
          \E k \in (i + 1)..(j - 1) : ~IsSpace(CleanBody(s)[k])

\* a body whose blank line came from the removal of an empty tag
C21_Witness ==
  \E s \in Slots :
    /\ Cleaned(s)
    /\ RawBody(s) = Chars("\n<b></b>\nx")
    /\ CleanBody(s) = Chars("\nx")

\* ---- C22
\* the raw articles of the payload in slot s and the projections returned for them
RawArticles(s) ==
  IF ops[s].name = "search"
    THEN Get(Payload(s), "results")[2]
    ELSE <<Get(Payload(s), "article")>>

ProjectedArticles(s) ==
  IF ops[s].name = "search"
    THEN Get(Result(s), "results")[2]
    ELSE <<Get(Result(s), "article")>>

\* C22: for a payload whose articles are objects that lack any of the
\* allow-listed fields (or the body, for getArticle), the operation returns and
\* raises no error; a field the raw article lacks is undefined in the projection,
\* a field it has is copied.
C22_ProjectionTotal ==
  \A s \in Slots :
    (/\ Settled(s)
     /\ ops[s].response[1] = "data"
     /\ IsObj(Payload(s))
     /\ ops[s].name = "search" => IsArray(Get(Payload(s), "results"))
     /\ \A i \in 1..Len(RawArticles(s)) :
          /\ IsObj(RawArticles(s)[i])
          /\ Get(RawArticles(s)[i], "body") = Undefined \/ IsStr(Get(RawArticles(s)[i], "body")))
    => /\ ops[s].outcome.kind = "return"
       /\ Len(ProjectedArticles(s)) = Len(RawArticles(s))
       /\ \A i \in 1..Len(RawArticles(s)) : \A k \in 1..Len(EightFields) :
            Get(ProjectedArticles(s)[i], EightFields[k]) =
              (IF EightFields[k] \in KeySet(RawArticles(s)[i])
                 THEN Get(RawArticles(s)[i], EightFields[k])
                 ELSE Undefined)
       /\ (ops[s].name = "article" /\ "body" \notin KeySet(RawArticles(s)[1])) =>
            Get(ProjectedArticles(s)[1], "body") = Undefined

\* getArticle returned for a raw article with neither a title nor a body
C22_Witness ==
  \E s \in Slots :
    /\ Returned(s, "article")
    /\ KeySet(Get(Payload(s), "article")) \cap {"title", "body"} = {}
    /\ Get(Get(Payload(s), "article"), "id") = Num(1)
    /\ Get(Get(Result(s), "article"), "id") = Num(1)
    /\ Get(Get(Result(s), "article"), "title") = Undefined
    /\ Get(Get(Result(s), "article"), "body") = Undefined

InFlight(caller) == {s \in Slots : IsPending(s) /\ ops[s].caller = caller}

\* C24: at most one retrieval operation is in flight per adapter at any time: the
\* console prompts only when its operation is resolved, and the tool adapter
\* never has the requests of two tool calls pending at once.
C24_OneInFlightPerAdapter ==
  /\ Cardinality(InFlight("console")) <= 1
  /\ (rl = "prompt" => InFlight("console") = {})
  /\ Cardinality(InFlight("tool")) <= 1

\* ---- C25
\* what the operation name does on the response when nothing else runs
Alone(name, response) ==
  IF response[1] = "data"
    THEN IF name = "search" THEN searchArticlesResult(response[2])
                            ELSE getArticleResult(response[2])
    ELSE Throw(response[2])

MissingCredential ==
  \E k \in {"ZENDESK_SUBDOMAIN", "ZENDESK_EMAIL", "ZENDESK_API_TOKEN"} :
    process.env[k] \in {Undefined, Str("")}

\* nothing is made yet: no client, no registered tool, no operation begun
NothingMade ==
  /\ client = NoClient
  /\ process.tools = {}
  /\ \A s \in Slots : Free(s)
  /\ rl = "none"

\* C26: the server and the debug console exit with status 1 at startup when the
\* subdomain, the email or the API token is unset or empty, before a client is
\* constructed, a tool registered or a request issued; an unset or empty
\* default locale is not fatal and gives the default locale "en".
C26_StartupCheck ==
  /\ process.status = "starting" => NothingMade
  /\ (process.status # "starting" /\ MissingCredential)
       => process.status = "exited" /\ process.exitCode = 1 /\ NothingMade
  /\ (process.status # "starting" /\ ~MissingCredential)
       => /\ process.status = "running"
          /\ client # NoClient
          /\ process.env.DEFAULT_LOCALE \in {Undefined, Str("")}
               => /\ client.defaultLocale = Str("en")
                  /\ DEFAULT_LOCALE(client) = Str("en")
                  /\ \A s \in Slots :
                       (IsPending(s) /\ ops[s].name = "search")
                         => Get(ops[s].request.params, "locale") = Str("en")

\* the debug console has exited on an empty API token, the rest being set
C26_Witness ==
  /\ process.program = "debug-cli"
  /\ process.status = "exited" /\ process.exitCode = 1
  /\ process.env.ZENDESK_API_TOKEN = Str("")
  /\ process.env.ZENDESK_SUBDOMAIN = Str("acme")
  /\ process.env.ZENDESK_EMAIL = Str("agent@acme.example")
  /\ process.env.DEFAULT_LOCALE = Str("")

\* ---- C27
\* C27: the committed build dist/index.js answers a tool call as the source server
\* does: on the same remote response, an object the source server returns a
\* result for, both give the same text content.
C27_BuildEquivalent ==
  \A s \in Slots :
    (Returned(s, ops[s].name) /\ ops[s].caller = "tool" /\ IsObj(Payload(s)))
      => ops[s].reply = distToolReply(ops[s].name, ops[s].response)

\* ---- C28
\* the position after the attribute that begins at i: whitespace, one of the
\* presentation attributes' names, "=", a quote, a value without that quote, the
\* same quote again; 0 when no such attribute begins at i
QuotedAttributeEnd(cs, i) ==
  LET Ends == {e \in (i + 1)..Len(cs) :
                 \E name \in PresentationAttributes :
                   LET q == i + Len(name) + 2 IN
                   /\ IsSpace(cs[i])
                   /\ MatchLit(cs, i + 1, Chars(name) \o <<"=">>)
                   /\ q < e
                   /\ IsQuote(cs[q])
                   /\ cs[e] = cs[q]
                   /\ \A k \in (q + 1)..(e - 1) : cs[k] # cs[q]}
  IN IF Ends = {} THEN 0 ELSE Min(Ends) + 1

\* from i on, cs is quoted presentation attributes and the tag's closing ">"
RECURSIVE OnlyQuotedAttributes(_, _)
OnlyQuotedAttributes(cs, i) ==
  IF i >= Len(cs)
    THEN i = Len(cs) /\ cs[i] = ">"
    ELSE LET e == QuotedAttributeEnd(cs, i)
         IN e # 0 /\ OnlyQuotedAttributes(cs, e)

\* C28: an attribute is removed with its whole quoted value, which ends at the
\* quote character that opened it: a raw body that is one <p tag with quoted
\* presentation attributes only, the other quote inside a value or not, comes
\* back as <p>, no piece of a value left in the tag.
C28_WholeQuotedValueRemoved ==
  \A s \in Slots :
    (/\ Cleaned(s)
     /\ Len(RawBody(s)) >= 3
     /\ SubSeq(RawBody(s), 1, 2) = Chars("<p")
     /\ OnlyQuotedAttributes(RawBody(s), 3))
      => CleanBody(s) = Chars("<p>")

\* ---- C29
\* a closing tag "</name>" is at i
ClosingAt(cs, i) ==
  /\ i + 2 <= Len(cs)
  /\ cs[i] = "<" /\ cs[i + 1] = "/"
  /\ IsAlpha(cs[i + 2])
  /\ SkipAlnum(cs, i + 2) <= Len(cs)
  /\ cs[SkipAlnum(cs, i + 2)] = ">"

\* the name of the closing tag at i, in lower case
ClosingName(cs, i) ==
  [k \in 1..(SkipAlnum(cs, i + 2) - i - 2) |-> LowerChar(cs[i + 1 + k])]

\* from i on, with the tags of open still open (the innermost last), every
\* closing tag of cs closes the innermost open tag
RECURSIVE NestedFrom(_, _, _)
NestedFrom(cs, i, open) ==
  LET Tags == {p \in i..Len(cs) : OpensAt(cs, p) \/ ClosingAt(cs, p)}
  IN IF Tags = {} THEN TRUE
     ELSE LET p == Min(Tags) IN
          IF OpensAt(cs, p)
            THEN NestedFrom(cs, p + 1, Append(open, TagName(cs, p)))
            ELSE /\ Len(open) > 0
                 /\ open[Len(open)] = ClosingName(cs, p)
                 /\ NestedFrom(cs, p + 1, SubSeq(open, 1, Len(open) - 1))

ProperlyNested(cs) == NestedFrom(cs, 1, <<>>)

\* every closing tag of cs has, before it, more opening tags of its name than
\* closing ones
ClosingsMatched(cs) ==
  \A i \in 1..Len(cs) :
    ClosingAt(cs, i) =>
      LET name == ClosingName(cs, i)
          Opened == {j \in 1..(i - 1) : OpensAt(cs, j) /\ TagName(cs, j) = name}
          Closed == {j \in 1..(i - 1) : ClosingAt(cs, j) /\ ClosingName(cs, j) = name}
      IN Cardinality(Opened) > Cardinality(Closed)

\* C29: the normalizer keeps tags properly nested: when every closing tag of the
\* raw body closes the innermost open tag, every closing tag of the body
\* getArticle returns has a still-open opening tag of its name before it, table
\* cells of several paragraphs included.
C29_NestingPreserved ==
  \A s \in Slots :
    (Cleaned(s) /\ ProperlyNested(RawBody(s))) => ClosingsMatched(CleanBody(s))

\* ---- C30
\* the handler of the tool call in slot s has run to its end
Handled(s) == Settled(s) /\ ops[s].caller = "tool" /\ ops[s].response[1] # "none"

\* text begins with prefix
BeginsWith(text, prefix) ==
  Len(text) >= Len(prefix) /\ SubSeq(text, 1, Len(prefix)) = prefix

\* C30: a tool handler lets no exception escape: whatever the operation's
\* outcome it returns a result of exactly one text content item, the
\* pretty-printed JSON of the operation's result when it returned and a string
\* that begins with "Search error: " or "Article retrieval error: " when it
\* threw; and the server takes the next tool call.
C30_HandlerAlwaysAnswers ==
  /\ \A s \in Slots :
       Handled(s) =>
         /\ IsObj(ops[s].reply)
         /\ IsArray(Get(ops[s].reply, "content"))
         /\ Len(Get(ops[s].reply, "content")[2]) = 1
         /\ LET item == Get(ops[s].reply, "content")[2][1]
                text == Get(item, "text")
            IN /\ Get(item, "type") = Str("text")
               /\ IsStr(text)
               /\ ops[s].outcome.kind = "return"
                    => text = Str(JsonText(ops[s].outcome.value, ""))
               /\ ops[s].outcome.kind = "throw"
                    => BeginsWith(text[2], IF ops[s].name = "search"
                                             THEN "Search error: "
                                             ELSE "Article retrieval error: ")
  /\ CanStart => ENABLED ToolCall("article", OverlapParams("article"))

\* the searchArticles tool has answered a refused connection
C30_Witness ==
  \E s \in Slots :
    /\ Handled(s)
    /\ ops[s].name = "search"
    /\ ops[s].outcome.kind = "throw"
    /\ ops[s].reply = ToolContent(Str("Search error: AxiosError: connect ECONNREFUSED"))

====
